---------------------------- MODULE Spec2Model ----------------------------
(***************************************************************************)
(* Model of the fantasy-football team selectors:                           *)
(*   quickfootballcode.py       optimize_team + multi-formation main       *)
(*   makeChangesToTeam.py       make_changes_to_team + multi-formation main*)
(*   ss/terribleIdeaFootballcode.py  generate_combinations + top-N main    *)
(*                                                                         *)
(* Prices are integers in units of 0.5 (4.5 is 9, a budget of 10.0 is 20), *)
(* points are integers.  The MILP engine (PuLP + CBC) is modelled by its   *)
(* contract on the problem the code builds: over binary variables it       *)
(* reports Optimal with some assignment that maximises the objective among *)
(* the assignments satisfying every constraint, or a non-Optimal status    *)
(* when no assignment satisfies them; which optimum it returns is a        *)
(* nondeterministic choice.                                                *)
(***************************************************************************)
EXTENDS Integers, Sequences, FiniteSets, TLC

VARIABLES
    program,        \* which script runs: "quick", "changes" or "enum"
    pc,             \* position of main: "loop", "summary", "done", "error"
    data,           \* the catalog returned by read_csv
    max_value,      \* args.max_value
    baseline,       \* makeChangesToTeam: the roster read_initial_team returned
    initial_team,   \* makeChangesToTeam: the list object holding it (mutated in place)
    force_replace,  \* makeChangesToTeam: sanitized id, "" when not given
    max_changes,    \* makeChangesToTeam: args.max_changes
    idx,            \* number of loop iterations completed
    formation,      \* the for loop's variable (<<>> before the loop)
    prob,           \* the LpProblem built by the last solve
    status,         \* LpStatus of the last solve ("" before the first)
    result,         \* the tuple returned by the last solve
    best_result,    \* best_result / (best_team, best_value, best_points)
    best_formation, \* best_formation
    all_results,    \* all_results
    calls,          \* repeated solves: the problem and return of each call so far
    order,          \* terribleIdea: iteration order of each position set
    args,           \* terribleIdea: fwds, mids, gks, defs, top_n
    groups,         \* terribleIdea: the groups the generator yields, in order
    consumed,       \* terribleIdea: how many groups the for loop has taken
    top_groups      \* terribleIdea: top_groups

vars == <<program, pc, data, max_value, baseline, initial_team, force_replace,
          max_changes, idx, formation, prob, status, result, best_result,
          best_formation, all_results, calls, order, args, groups, consumed,
          top_groups>>

solveVars == <<baseline, initial_team, force_replace, max_changes, idx,
               formation, prob, status,
               result, best_result, best_formation, all_results, calls>>

enumVars == <<order, args, groups, consumed, top_groups>>

---------------------------------------------------------------------------
(* Bounds of the model *)

\* longest baseline roster the model enumerates
MaxBaseline == 2

\* largest change budget (args.max_changes) the model enumerates
MaxChanges == 2

\* largest args.top_n the model enumerates
MaxTopN == 2

\* largest args.fwds and args.mids the model enumerates
MaxCount == 2

\* largest args.defs and args.gks the model enumerates
MaxFew == 1

---------------------------------------------------------------------------
(* Program constants *)

POSITIONS == <<"GK", "DEF", "MID", "FWD">>

PositionSet == {POSITIONS[i] : i \in 1..Len(POSITIONS)}

\* The formations main iterates.  The program's list holds seven 11-player
\* shapes; the model keeps its structure (distinct entries, one goalkeeper,
\* varying DEF/MID/FWD split) at a size small catalogs can fill.
FORMATIONS == << <<1, 1, 0, 0>>, <<1, 0, 1, 0>>, <<1, 1, 1, 0>>, <<1, 0, 0, 1>> >>

---------------------------------------------------------------------------
(* Generic helpers *)

Range(s) == {s[i] : i \in DOMAIN s}

Min(a, b) == IF a < b THEN a ELSE b

RECURSIVE SumOver(_, _)
\* sum(f[x] for x in S)
SumOver(S, f) ==
    IF S = {} THEN 0
    ELSE LET x == CHOOSE y \in S : TRUE
         IN  f[x] + SumOver(S \ {x}, f)

RECURSIVE SumSeq(_)
\* sum(...) over a list of numbers
SumSeq(s) == IF s = <<>> THEN 0 ELSE Head(s) + SumSeq(Tail(s))

\* dict[k] = v
Put(f, k, v) == [x \in (DOMAIN f) \cup {k} |-> IF x = k THEN v ELSE f[x]]

\* list.remove(x): drops the first occurrence of x (x is in the list)
ListRemove(s, x) ==
    LET i == CHOOSE j \in DOMAIN s : s[j] = x /\ \A k \in 1..(j - 1) : s[k] # x
    IN  SubSeq(s, 1, i - 1) \o SubSeq(s, i + 1, Len(s))

---------------------------------------------------------------------------
(* Catalog: read_csv *)

\* data[pos] is data.index[pos]; data['info'] is data.info
Row(n, p, v, s) == [Name |-> n, Position |-> p, Price |-> v, Points |-> s]

EmptyData ==
    [index |-> [pos \in PositionSet |-> <<>>], info |-> [x \in {} |-> 0]]

RECURSIVE read_csv_rows(_, _)
\* the body of read_csv's for loop, applied row by row
read_csv_rows(d, rows) ==
    IF rows = <<>> THEN d
    ELSE LET row == Head(rows)
             name == row.Name
             position == row.Position
             d1 == [d EXCEPT !.info =
                       Put(@, name, [value |-> row.Price, points |-> row.Points,
                                     position |-> position])]
             d2 == IF position \in PositionSet
                   THEN [d1 EXCEPT !.index[position] = Append(@, name)]
                   ELSE d1
         IN  read_csv_rows(d2, Tail(rows))

read_csv(rows) == read_csv_rows(EmptyData, rows)

\* The spec's example catalog.
RowsExample ==
    << Row("A", "GK", 8, 2), Row("B", "GK", 9, 5),
       Row("C", "DEF", 10, 3), Row("D", "DEF", 11, 6) >>

\* Every position present; the cheaper goalkeeper is the better one and
\* D and M tie on points.
RowsFull ==
    << Row("G", "GK", 8, 5), Row("H", "GK", 9, 2), Row("D", "DEF", 11, 6),
       Row("M", "MID", 11, 6), Row("F", "FWD", 10, 1) >>

\* Records whose position is outside POSITIONS: E scores, Z scores nothing.
RowsOther ==
    << Row("A", "GK", 8, 2), Row("C", "DEF", 10, 3), Row("M", "MID", 9, 3),
       Row("E", "MGR", 2, 4), Row("Z", "MGR", 1, 0) >>

\* Every team of every formation has a negative total of points.
RowsLosing ==
    << Row("L", "GK", 8, -3), Row("C", "DEF", 10, 1), Row("M", "MID", 9, 1),
       Row("F", "FWD", 10, 1) >>

InputFiles == {RowsExample, RowsFull, RowsOther, RowsLosing}

Budgets == {16, 20, 32}

---------------------------------------------------------------------------
(* PuLP: affine expressions, constraints, the solver's contract *)

\* lpSum([coef(p) * player_vars[p] for p in terms]) over the variables V;
\* terms is a list of <<coefficient, variable>>
lpSum(V, terms) ==
    [v \in V |-> SumSeq([i \in DOMAIN terms |->
                            IF terms[i][2] = v THEN terms[i][1] ELSE 0])]

Constraint(expr, sense, rhs) == [expr |-> expr, sense |-> sense, rhs |-> rhs]

\* value of an affine expression under an assignment
ExprValue(expr, x) ==
    SumOver(DOMAIN expr, [v \in DOMAIN expr |-> expr[v] * x[v]])

Satisfies(x, c) ==
    LET lhs == ExprValue(c.expr, x)
    IN  CASE c.sense = "<=" -> lhs <= c.rhs
          [] c.sense = "==" -> lhs = c.rhs
          [] c.sense = ">=" -> lhs >= c.rhs

Feasible(p) ==
    {x \in [p.variables -> {0, 1}] :
        \A i \in DOMAIN p.constraints : Satisfies(x, p.constraints[i])}

\* prob.solve(PULP_CBC_CMD(msg=0)): the outcomes the engine may report
Solve(p) ==
    LET F == Feasible(p)
    IN  IF F = {}
        THEN {[status |-> "Infeasible", x |-> [v \in p.variables |-> 0]]}
        ELSE LET top == CHOOSE y \in F : \A z \in F :
                          ExprValue(p.objective, y) >= ExprValue(p.objective, z)
                 best == ExprValue(p.objective, top)
             IN  {[status |-> "Optimal", x |-> x] :
                     x \in {y \in F : ExprValue(p.objective, y) = best}}

NoProblem == [variables |-> {}, objective |-> <<>>, constraints |-> <<>>]

Sentinel == [team |-> {}, value |-> 0, points |-> 0]

\* the tuple both solve functions return from a solver outcome
ReturnOf(d, out) ==
    IF out.status = "Optimal"
    THEN LET selected_players == {p \in DOMAIN d.info : out.x[p] = 1}
         IN  [team   |-> selected_players,
              value  |-> SumOver(selected_players,
                                 [p \in selected_players |-> d.info[p].value]),
              points |-> SumOver(selected_players,
                                 [p \in selected_players |-> d.info[p].points])]
    ELSE Sentinel

---------------------------------------------------------------------------
(* Constraint model builders *)

\* faulty variant: the objective sums 'value' where the code sums 'points'
Mut_ObjectiveOf(d, players) == [p \in players |-> d.info[p].value]

\* lpSum([data['info'][player]['points'] * player_vars[player] for player in ...])
ObjectiveOf(d, players) == [p \in players |-> d.info[p].points]

\* faulty variant: the total value constraint with its sense reversed
Mut_BudgetConstraint(d, players, budget) ==
    Constraint([p \in players |-> d.info[p].value], ">=", budget)

\* lpSum([data['info'][player]['value'] * player_vars[player] ...]) <= max_value
BudgetConstraint(d, players, budget) ==
    Constraint([p \in players |-> d.info[p].value], "<=", budget)

PositionConstraint(d, players, position, count) ==
    Constraint([p \in players |->
                   IF d.info[p].position = position THEN 1 ELSE 0],
               "==", count)

\* for position, count in zip(POSITIONS, formation): ...
PositionConstraints(d, players, fm) ==
    [i \in 1..Min(Len(POSITIONS), Len(fm)) |->
        PositionConstraint(d, players, POSITIONS[i], fm[i])]

\* the LpProblem optimize_team builds
optimize_team_problem(d, fm, budget) ==
    LET players == DOMAIN d.info
    IN  [variables   |-> players,
         objective   |-> ObjectiveOf(d, players),
         constraints |-> <<BudgetConstraint(d, players, budget)>>
                         \o PositionConstraints(d, players, fm)]

\* initial_team after "if force_replace and force_replace in initial_team"
BaselineAfterRemoval(team, fr) ==
    IF fr # "" /\ fr \in Range(team) THEN ListRemove(team, fr) ELSE team

\* faulty variant: the retention bound one too low
Mut_RetentionConstraint(players, team, changes) ==
    Constraint(lpSum(players, [i \in DOMAIN team |-> <<1, team[i]>>]),
               ">=", Len(team) - changes - 1)

\* "Ensure initial team players are included or replaced"
RetentionConstraint(players, team, changes) ==
    Constraint(lpSum(players, [i \in DOMAIN team |-> <<1, team[i]>>]),
               ">=", Len(team) - changes)

\* faulty variant: the force replace constraint is never added
Mut_ForceReplaceConstraints(players, fr) == <<>>

\* "Force replace constraint"
ForceReplaceConstraints(players, fr) ==
    IF fr # ""
    THEN <<Constraint([p \in players |-> IF p = fr THEN 1 ELSE 0], "==", 0)>>
    ELSE <<>>

\* faulty variant: num_initial_players is taken before force_replace is
\* removed from the list
Mut_make_changes_problem(d, passed, fr, changes, budget, fm) ==
    LET all_players == DOMAIN d.info
        team == BaselineAfterRemoval(passed, fr)
    IN  [variables   |-> all_players,
         objective   |-> ObjectiveOf(d, all_players),
         constraints |-> <<BudgetConstraint(d, all_players, budget)>>
                         \o PositionConstraints(d, all_players, fm)
                         \o <<Constraint(lpSum(all_players,
                                         [i \in DOMAIN team |-> <<1, team[i]>>]),
                                         ">=", Len(passed) - changes)>>
                         \o ForceReplaceConstraints(all_players, fr)]

\* the LpProblem make_changes_to_team builds when it is passed the list
\* `passed` as initial_team; team is that list after the in-place removal
make_changes_problem(d, passed, fr, changes, budget, fm) ==
    LET all_players == DOMAIN d.info
        team == BaselineAfterRemoval(passed, fr)
    IN  [variables   |-> all_players,
         objective   |-> ObjectiveOf(d, all_players),
         constraints |-> <<BudgetConstraint(d, all_players, budget)>>
                         \o PositionConstraints(d, all_players, fm)
                         \o <<RetentionConstraint(all_players, team, changes)>>
                         \o ForceReplaceConstraints(all_players, fr)]

\* write_results: players_by_position[position] raises KeyError for a
\* selected player whose position is not one of POSITIONS
write_results_ok(res, d) ==
    \A p \in res.team : d.info[p].position \in PositionSet


---------------------------------------------------------------------------
(* The multi-formation mains of quickfootballcode.py and makeChangesToTeam.py *)

\* duplicate-free lists of catalog ids, at most MaxBaseline long
Baselines(d) ==
    {s \in UNION {[1..n -> DOMAIN d.info] : n \in 0..MaxBaseline} :
        \A i, j \in DOMAIN s : i # j => s[i] # s[j]}

NoArgs == [fwds |-> 0, mids |-> 0, gks |-> 0, defs |-> 0, top_n |-> 0]

EnumIdle ==
    /\ order = [pos \in PositionSet |-> <<>>]
    /\ args = NoArgs
    /\ groups = <<>>
    /\ consumed = 0
    /\ top_groups = <<>>

\* main up to the for loop: data read, accumulators initialised
InitSolve ==
    /\ program \in {"quick", "changes"}
    /\ pc = "loop"
    /\ \E rows \in InputFiles : data = read_csv(rows)
    /\ max_value \in Budgets
    /\ IF program = "changes"
       THEN /\ baseline \in Baselines(data)
            /\ initial_team = baseline
            /\ force_replace \in (DOMAIN data.info) \cup {""}
            /\ max_changes \in 0..MaxChanges
       ELSE /\ baseline = <<>>
            /\ initial_team = <<>>
            /\ force_replace = ""
            /\ max_changes = 0
    /\ idx = 0
    /\ formation = <<>>
    /\ prob = NoProblem
    /\ status = ""
    /\ result = Sentinel
    /\ best_result = Sentinel
    /\ best_formation = <<>>
    /\ all_results = <<>>
    /\ calls = <<>>
    /\ EnumIdle

Init == InitSolve

\* faulty variant: the comparison is >= instead of >
Mut_BetterThanBest(r, best) == r.points >= best.points

\* "if total_points > best_points": the accumulator after one formation
BetterThanBest(r, best) == r.points > best.points

\* one iteration of quickfootballcode.main's for loop
OptimizeFormation ==
    /\ program = "quick"
    /\ pc = "loop"
    /\ idx < Len(FORMATIONS)
    /\ LET f == FORMATIONS[idx + 1]
           p == optimize_team_problem(data, f, max_value)
       IN  \E out \in Solve(p) :
             LET r == ReturnOf(data, out)
             IN  /\ formation' = f
                 /\ prob' = p
                 /\ status' = out.status
                 /\ result' = r
                 /\ all_results' = Append(all_results, <<f, r.points>>)
                 /\ IF write_results_ok(r, data)
                    THEN /\ best_result' =
                               IF BetterThanBest(r, best_result) THEN r ELSE best_result
                         /\ best_formation' =
                               IF BetterThanBest(r, best_result)
                               THEN f ELSE best_formation
                         /\ idx' = idx + 1
                         /\ pc' = "loop"
                    ELSE /\ UNCHANGED <<best_result, best_formation, idx>>
                         /\ pc' = "error"
    /\ UNCHANGED <<program, data, max_value, baseline, initial_team,
                   force_replace, max_changes, calls>>
    /\ UNCHANGED enumVars

\* one iteration of makeChangesToTeam.main's for loop
ChangeFormation ==
    /\ program = "changes"
    /\ pc = "loop"
    /\ idx < Len(FORMATIONS)
    /\ LET f == FORMATIONS[idx + 1]
           team == BaselineAfterRemoval(initial_team, force_replace)
           p == make_changes_problem(data, initial_team, force_replace,
                                     max_changes, max_value, f)
       IN  \E out \in Solve(p) :
             LET r == ReturnOf(data, out)
             IN  /\ formation' = f
                 /\ initial_team' = team
                 /\ prob' = p
                 /\ status' = out.status
                 /\ result' = r
                 /\ all_results' = Append(all_results, <<f, r.points>>)
                 /\ best_result' =
                       IF BetterThanBest(r, best_result) THEN r ELSE best_result
                 /\ best_formation' =
                       IF BetterThanBest(r, best_result)
                       THEN f ELSE best_formation
                 /\ IF write_results_ok(r, data)
                    THEN idx' = idx + 1 /\ pc' = "loop"
                    ELSE idx' = idx /\ pc' = "error"
    /\ UNCHANGED <<program, data, max_value, baseline, force_replace,
                   max_changes, calls>>
    /\ UNCHANGED enumVars

\* after the loop: write_summary and the "Best formation" log line
WriteSummary ==
    /\ program \in {"quick", "changes"}
    /\ pc = "loop"
    /\ idx = Len(FORMATIONS)
    /\ pc' = "done"
    /\ UNCHANGED <<program, data, max_value>>
    /\ UNCHANGED solveVars
    /\ UNCHANGED enumVars

Next == OptimizeFormation \/ ChangeFormation \/ WriteSummary

Spec == Init /\ [][Next]_vars

---------------------------------------------------------------------------
(* A solve function called again with the arguments of the call before *)

\* the catalogs of the repeated solves: the spec's example, and the one
\* whose optimal selections differ in cost
RepeatInputFiles == {RowsExample, RowsOther}

\* a caller holding a catalog, a baseline list and the other arguments,
\* about to call optimize_team or make_changes_to_team twice for one
\* formation
InitRepeat ==
    /\ program \in {"quick", "changes"}
    /\ pc = "call"
    /\ \E rows \in RepeatInputFiles : data = read_csv(rows)
    /\ max_value \in Budgets
    /\ IF program = "changes"
       THEN /\ baseline \in Baselines(data)
            /\ initial_team = baseline
            /\ force_replace \in (DOMAIN data.info) \cup {""}
            /\ max_changes \in 0..MaxChanges
       ELSE /\ baseline = <<>>
            /\ initial_team = <<>>
            /\ force_replace = ""
            /\ max_changes = 0
    /\ idx = 0
    /\ formation \in Range(FORMATIONS)
    /\ prob = NoProblem
    /\ status = ""
    /\ result = Sentinel
    /\ best_result = Sentinel
    /\ best_formation = <<>>
    /\ all_results = <<>>
    /\ calls = <<>>
    /\ EnumIdle

\* optimize_team(data, formation, max_value)
CallOptimizeTeam ==
    /\ program = "quick"
    /\ pc = "call"
    /\ Len(calls) < 2
    /\ LET p == optimize_team_problem(data, formation, max_value)
       IN  \E out \in Solve(p) :
             /\ prob' = p
             /\ status' = out.status
             /\ result' = ReturnOf(data, out)
             /\ calls' = Append(calls, [prob |-> p, status |-> out.status,
                                        ret |-> ReturnOf(data, out)])
    /\ UNCHANGED <<program, pc, data, max_value, baseline, initial_team,
                   force_replace, max_changes, idx, formation, best_result,
                   best_formation, all_results>>
    /\ UNCHANGED enumVars

\* make_changes_to_team(data, initial_team, force_replace, max_changes,
\* max_value, formation), initial_team being the caller's list object
CallMakeChanges ==
    /\ program = "changes"
    /\ pc = "call"
    /\ Len(calls) < 2
    /\ LET p == make_changes_problem(data, initial_team, force_replace,
                                     max_changes, max_value, formation)
       IN  \E out \in Solve(p) :
             /\ initial_team' = BaselineAfterRemoval(initial_team, force_replace)
             /\ prob' = p
             /\ status' = out.status
             /\ result' = ReturnOf(data, out)
             /\ calls' = Append(calls, [prob |-> p, status |-> out.status,
                                        ret |-> ReturnOf(data, out)])
    /\ UNCHANGED <<program, pc, data, max_value, baseline, force_replace,
                   max_changes, idx, formation, best_result, best_formation,
                   all_results>>
    /\ UNCHANGED enumVars

NextRepeat == CallOptimizeTeam \/ CallMakeChanges

SpecRepeat == InitRepeat /\ [][NextRepeat]_vars

---------------------------------------------------------------------------
(* ss/terribleIdeaFootballcode.py: catalog, generator, top-N loop *)

RECURSIVE read_csv_set_rows(_, _)
\* the body of this script's read_csv loop: the position indexes are sets
read_csv_set_rows(d, rows) ==
    IF rows = <<>> THEN d
    ELSE LET row == Head(rows)
             name == row.Name
             position == row.Position
             d1 == [d EXCEPT !.info =
                       Put(@, name, [value |-> row.Price, points |-> row.Points,
                                     position |-> position])]
             d2 == IF position \in PositionSet
                   THEN [d1 EXCEPT !.index[position] = @ \cup {name}]
                   ELSE d1
         IN  read_csv_set_rows(d2, Tail(rows))

read_csv_set(rows) ==
    read_csv_set_rows([index |-> [pos \in PositionSet |-> {}],
                       info |-> [x \in {} |-> 0]], rows)

\* The spec's enumeration example: three forwards costing 3, 4, 5.
RowsForwards ==
    << Row("F1", "FWD", 6, 2), Row("F2", "FWD", 8, 3), Row("F3", "FWD", 10, 4) >>

\* Several positions, with equal scores among the groups.
RowsMixed ==
    << Row("P", "FWD", 4, 3), Row("Q", "FWD", 6, 3), Row("R", "MID", 4, 2),
       Row("S", "MID", 8, 5), Row("T", "DEF", 4, 1), Row("V", "GK", 2, 1),
       Row("W", "GK", 4, 1) >>

\* A record with a negative price.
RowsNegative ==
    << Row("X", "FWD", 18, 5), Row("N", "FWD", 6, 2), Row("Y", "MID", -4, 1),
       Row("K", "GK", 2, 1) >>

\* A repeated id: A is listed as a goalkeeper, later as a defender.
RowsRepeat ==
    << Row("A", "GK", 2, 1), Row("B", "DEF", 4, 2), Row("A", "DEF", 2, 3) >>

EnumInputFiles == {RowsForwards, RowsMixed, RowsNegative, RowsRepeat}

EnumBudgets == {8, 16, 20}

\* the orders in which iterating a set may deliver its elements
Orderings(S) ==
    {s \in [1..Cardinality(S) -> S] : \A i, j \in DOMAIN s : i # j => s[i] # s[j]}

RECURSIVE combinations(_, _)
\* itertools.combinations(s, r) for r >= 0, in the order it yields
combinations(s, r) ==
    IF r = 0 THEN << <<>> >>
    ELSE IF Len(s) < r THEN <<>>
    ELSE LET withHead == combinations(Tail(s), r - 1)
         IN  [i \in DOMAIN withHead |-> <<Head(s)>> \o withHead[i]]
             \o combinations(Tail(s), r)

RECURSIVE Concat(_)
\* the items of a list of lists, in order
Concat(ss) == IF ss = <<>> THEN <<>> ELSE Head(ss) \o Concat(Tail(ss))

\* sum(data['info'][name]['value'] for name in combination)
total_value_of(d, c) == SumSeq([k \in DOMAIN c |-> d.info[c[k]].value])

\* faulty variant: a partial sum equal to the budget is skipped too
Mut_Skip(partial, budget) == partial >= budget

\* "if <partial sum> > max_value: continue"
Skip(partial, budget) == partial > budget

\* the groups generate_combinations yields, in order; ord[pos] is the order
\* in which data[pos] is iterated
generate_combinations(d, ord, number_of_fwds, number_of_mids, number_of_gks, number_of_defs, budget) ==
    LET fwds == combinations(ord["FWD"], number_of_fwds)
        mids == combinations(ord["MID"], number_of_mids)
        defs == combinations(ord["DEF"], number_of_defs)
        gks  == combinations(ord["GK"], number_of_gks)
        FromDef(f, m, dd) ==
            LET v == total_value_of(d, f) + total_value_of(d, m)
                        + total_value_of(d, dd)
            IN  IF Skip(v, budget) THEN <<>>
                ELSE Concat([l \in DOMAIN gks |->
                        IF v + total_value_of(d, gks[l]) <= budget
                        THEN <<f \o m \o dd \o gks[l]>> ELSE <<>>])
        FromMid(f, m) ==
            IF Skip(total_value_of(d, f) + total_value_of(d, m), budget) THEN <<>>
            ELSE Concat([k \in DOMAIN defs |-> FromDef(f, m, defs[k])])
        FromFwd(f) ==
            IF Skip(total_value_of(d, f), budget) THEN <<>>
            ELSE Concat([j \in DOMAIN mids |-> FromMid(f, mids[j])])
    IN  Concat([i \in DOMAIN fwds |-> FromFwd(fwds[i])])

calculate_group_totals(group, d) ==
    << SumSeq([k \in DOMAIN group |-> d.info[group[k]].value]),
       SumSeq([k \in DOMAIN group |-> d.info[group[k]].points]) >>

\* faulty variant: an entry goes in front of the entries with the same points
Mut_InsertByPoints(sorted, e) ==
    LET k == Cardinality({i \in DOMAIN sorted : sorted[i][3] > e[3]})
    IN  SubSeq(sorted, 1, k) \o <<e>> \o SubSeq(sorted, k + 1, Len(sorted))

\* one step of the stable sort: e goes behind every entry with at least
\* its points
InsertByPoints(sorted, e) ==
    LET k == Cardinality({i \in DOMAIN sorted : sorted[i][3] >= e[3]})
    IN  SubSeq(sorted, 1, k) \o <<e>> \o SubSeq(sorted, k + 1, Len(sorted))

RECURSIVE SortByPoints(_)
\* list.sort(key=lambda x: x[2], reverse=True): stable, descending
SortByPoints(list) ==
    IF list = <<>> THEN <<>>
    ELSE InsertByPoints(SortByPoints(SubSeq(list, 1, Len(list) - 1)),
                        list[Len(list)])

\* faulty variant: the slice keeps one entry more
Mut_KeepTop(list, n) == SubSeq(list, 1, Min(n + 1, Len(list)))

\* list[:n] for n >= 0
KeepTop(list, n) == SubSeq(list, 1, Min(n, Len(list)))

SolveIdle ==
    /\ baseline = <<>>
    /\ initial_team = <<>>
    /\ force_replace = ""
    /\ max_changes = 0
    /\ idx = 0
    /\ formation = <<>>
    /\ prob = NoProblem
    /\ status = ""
    /\ result = Sentinel
    /\ best_result = Sentinel
    /\ best_formation = <<>>
    /\ all_results = <<>>
    /\ calls = <<>>

\* main up to the for loop: data read, generator created, top_groups empty
InitEnum ==
    /\ program = "enum"
    /\ pc = "loop"
    /\ \E rows \in EnumInputFiles : data = read_csv_set(rows)
    /\ max_value \in EnumBudgets
    /\ order \in {o \in [PositionSet -> UNION {Orderings(data.index[pos]) :
                                                pos \in PositionSet}] :
                    \A pos \in PositionSet : o[pos] \in Orderings(data.index[pos])}
    /\ args \in [fwds : 0..MaxCount, mids : 0..MaxCount, gks : 0..MaxFew,
                 defs : 0..MaxFew, top_n : 0..MaxTopN]
    /\ groups = generate_combinations(data, order, args.fwds, args.mids,
                                      args.gks, args.defs, max_value)
    /\ consumed = 0
    /\ top_groups = <<>>
    /\ SolveIdle

\* one iteration of "for group in groups"
TakeGroup ==
    /\ program = "enum"
    /\ pc = "loop"
    /\ consumed < Len(groups)
    /\ LET group == groups[consumed + 1]
           totals == calculate_group_totals(group, data)
           total_value == totals[1]
           total_points == totals[2]
       IN  top_groups' =
              IF total_value <= max_value
              THEN KeepTop(SortByPoints(Append(top_groups,
                              <<group, total_value, total_points>>)), args.top_n)
              ELSE top_groups
    /\ consumed' = consumed + 1
    /\ UNCHANGED <<program, pc, data, max_value, order, args, groups>>
    /\ UNCHANGED solveVars

\* the generator is exhausted: write_results(args.output_file, top_groups, data)
WriteTopGroups ==
    /\ program = "enum"
    /\ pc = "loop"
    /\ consumed = Len(groups)
    /\ pc' = "done"
    /\ UNCHANGED <<program, data, max_value>>
    /\ UNCHANGED enumVars
    /\ UNCHANGED solveVars

NextEnum == TakeGroup \/ WriteTopGroups

SpecEnum == InitEnum /\ [][NextEnum]_vars

---------------------------------------------------------------------------
(* Properties of the solve functions and the multi-formation loop *)

CostOf(S) == SumOver(S, [p \in S |-> data.info[p].value])

ScoreOf(S) == SumOver(S, [p \in S |-> data.info[p].points])

CountAt(S, position) ==
    Cardinality({p \in S : data.info[p].position = position})

MatchesFormation(S, f) ==
    \A i \in 1..Len(POSITIONS) : CountAt(S, POSITIONS[i]) = f[i]

ExampleData == read_csv(RowsExample)

\* C1: whenever optimize_team or make_changes_to_team returns from an Optimal
\* solve, the selected ids cost at most the budget in total and, for each of
\* GK, DEF, MID, FWD, the number of selected ids with that catalog position
\* equals the formation's count.
C1_BudgetAndFormation ==
    status = "Optimal" =>
        /\ CostOf(result.team) <= max_value
        /\ MatchesFormation(result.team, formation)

\* an Optimal selection that spends the whole budget, in evolution mode
C1_Witness ==
    /\ program = "changes"
    /\ status = "Optimal"
    /\ result.team # {}
    /\ CostOf(result.team) = max_value

\* the subsets of the catalog meeting the budget and position constraints
ValidSubsets(f) ==
    {S \in SUBSET (DOMAIN data.info) :
        CostOf(S) <= max_value /\ MatchesFormation(S, f)}

\* C2: optimize_team's total score is the maximum total score over all
\* subsets of the catalog meeting the budget and position-exactness
\* constraints; the spec's example returns {B, D}, cost 10.0, score 11; with
\* no feasible subset it returns the sentinel (empty selection, 0, 0).
C2_OptimalByEnumeration ==
    (program = "quick" /\ status # "") =>
        /\ IF ValidSubsets(formation) = {}
           THEN result = Sentinel
           ELSE /\ result.team \in ValidSubsets(formation)
                /\ result.points = ScoreOf(result.team)
                /\ \A S \in ValidSubsets(formation) : ScoreOf(S) <= result.points
        /\ (data = ExampleData /\ formation = <<1, 1, 0, 0>> /\ max_value = 20)
              => result = [team |-> {"B", "D"}, value |-> 20, points |-> 11]

\* the spec's example has been solved by optimize_team
C2_Witness ==
    /\ program = "quick"
    /\ data = ExampleData
    /\ formation = <<1, 1, 0, 0>>
    /\ max_value = 20
    /\ status = "Optimal"
    /\ result.team = {"B", "D"}

\* C3: every Optimal result of make_changes_to_team omits at most
\* max_changes ids of (baseline minus the forced exclusion); removing the
\* forced exclusion consumes no change budget: baseline [A, C], one change,
\* forced exclusion A returns {B, D} with score 11.
C3_Retention ==
    (program = "changes" /\ status = "Optimal") =>
        /\ Cardinality((Range(baseline) \ {force_replace}) \ result.team)
              <= max_changes
        /\ (/\ data = ExampleData
            /\ formation = <<1, 1, 0, 0>>
            /\ max_value = 20
            /\ baseline = <<"A", "C">>
            /\ max_changes = 1
            /\ force_replace = "A")
              => (result.team = {"B", "D"} /\ result.points = 11)

\* the evolution example: both baseline players are gone from the result
\* although the change budget is 1
C3_Witness ==
    /\ program = "changes"
    /\ data = ExampleData
    /\ formation = <<1, 1, 0, 0>>
    /\ max_value = 20
    /\ baseline = <<"A", "C">>
    /\ max_changes = 1
    /\ force_replace = "A"
    /\ status = "Optimal"
    /\ result.team = {"B", "D"}

\* the retention constraint of the last problem make_changes_to_team built
RetentionOf(p) == p.constraints[Len(POSITIONS) + 2]

\* C4: a given forced-exclusion id never appears in the selection
\* make_changes_to_team returns, in the baseline or not; when it is not in
\* the baseline the retention constraint is the one built with no exclusion.
C4_ForcedExclusion ==
    (program = "changes" /\ status # "" /\ force_replace # "") =>
        /\ force_replace \notin result.team
        /\ force_replace \notin Range(baseline) =>
              RetentionOf(prob) =
                 RetentionOf(make_changes_problem(data, baseline, "",
                                max_changes, max_value, formation))

\* an excluded id outside the baseline that an unconstrained solve of the
\* same formation would select
C4_Witness ==
    /\ program = "changes"
    /\ status = "Optimal"
    /\ force_replace # ""
    /\ force_replace \notin Range(baseline)
    /\ baseline # <<>>
    /\ \E out \in Solve(optimize_team_problem(data, formation, max_value)) :
          out.status = "Optimal" /\ out.x[force_replace] = 1

\* C5: no catalog player whose position is outside POSITIONS is ever part of
\* a returned selection, so every Optimal selection has as many ids as the
\* formation's counts add up to.
C5_OutOfEnumNeverSelected ==
    /\ \A p \in result.team : data.info[p].position \in PositionSet
    /\ status = "Optimal" => Cardinality(result.team) = SumSeq(formation)

\* C6: the loop always runs to the end of the formation list and leaves one
\* (formation, total score) entry per formation, in input order; a formation
\* whose solve is not Optimal does not abort it, is recorded with the
\* sentinel's score 0 and never becomes the best record.
C6_LoopRunsToEnd ==
    /\ pc # "error"
    /\ pc = "done" =>
          /\ Len(all_results) = Len(FORMATIONS)
          /\ \A i \in DOMAIN all_results : all_results[i][1] = FORMATIONS[i]
    /\ status \notin {"", "Optimal"} =>
          /\ result = Sentinel
          /\ all_results[Len(all_results)] = <<formation, 0>>
          /\ best_formation # formation

\* the best record changes only for a strictly greater total score
StrictReplacement ==
    [][(best_result' # best_result \/ best_formation' # best_formation)
          => (/\ result'.points > best_result.points
              /\ best_result' = result'
              /\ best_formation' = formation')]_vars

\* of two formations with the same total score the later one is not the best
TieKeepsEarliest ==
    pc = "done" =>
        \A i, j \in DOMAIN all_results :
            (i < j /\ all_results[i][2] = all_results[j][2])
                => best_formation # FORMATIONS[j]

\* C7: the best record is replaced only when a formation's total score is
\* strictly greater than the best score so far; of two formations with the
\* same total score the earlier one's record is the best after the loop.
C7_StrictBest == StrictReplacement /\ []TieKeepsEarliest

\* the loop has ended with the best score attained by two formations, the
\* earlier of which is the best formation
C7_Witness ==
    /\ pc = "done"
    /\ \E i, j \in DOMAIN all_results :
          /\ i < j
          /\ all_results[i][2] = best_result.points
          /\ all_results[j][2] = best_result.points
          /\ best_formation = FORMATIONS[i]

---------------------------------------------------------------------------
(* Properties of the pruned enumeration and the top-N list *)

\* C8: after every step of the enumeration loop and at its end, top_groups
\* has at most top_n entries (top_n >= 0), every entry's total cost is at
\* most the budget, and the entries' total scores are non-increasing.
C8_TopGroupsBounded ==
    (program = "enum" /\ args.top_n >= 0) =>
        /\ Len(top_groups) <= args.top_n
        /\ \A i \in DOMAIN top_groups :
              /\ top_groups[i][2] <= max_value
              /\ total_value_of(data, top_groups[i][1]) <= max_value
        /\ \A i, j \in DOMAIN top_groups :
              i < j => top_groups[i][3] >= top_groups[j][3]

\* the loop has ended with a full list cut from more groups than it holds,
\* of different scores
C8_Witness ==
    /\ program = "enum"
    /\ pc = "done"
    /\ args.top_n > 1
    /\ Len(top_groups) = args.top_n
    /\ Len(groups) > args.top_n
    /\ top_groups[1][3] > top_groups[Len(top_groups)][3]

NonNegativeCosts == \A p \in DOMAIN data.info : data.info[p].value >= 0

\* the k-th smallest member of a set of numbers
KthOf(I, k) == CHOOSE i \in I : Cardinality({j \in I : j < i}) = k - 1

\* every way of picking r elements of the list s, each in list order
Picks(s, r) ==
    {[k \in 1..r |-> s[KthOf(I, k)]] :
        I \in {J \in SUBSET (DOMAIN s) : Cardinality(J) = r}}

\* the unpruned enumeration: forwards, then midfielders, then defenders,
\* then goalkeepers
AllGroups ==
    {f \o m \o dd \o g :
        f \in Picks(order["FWD"], args.fwds), m \in Picks(order["MID"], args.mids),
        dd \in Picks(order["DEF"], args.defs), g \in Picks(order["GK"], args.gks)}

GroupCost(g) == SumSeq([k \in DOMAIN g |-> data.info[g[k]].value])

GroupScore(g) == SumSeq([k \in DOMAIN g |-> data.info[g[k]].points])

\* the group lists its forwards first, then midfielders, defenders, goalkeepers
InPositionOrder(g) ==
    /\ Len(g) = args.fwds + args.mids + args.defs + args.gks
    /\ \A k \in DOMAIN g :
          g[k] \in data.index[
              IF k <= args.fwds THEN "FWD"
              ELSE IF k <= args.fwds + args.mids THEN "MID"
              ELSE IF k <= args.fwds + args.mids + args.defs THEN "DEF"
              ELSE "GK"]

\* C9: with non-negative costs the pruned generator yields exactly the
\* groups of the unpruned enumeration whose total cost is at most the
\* budget, each once, forwards first, then midfielders, defenders and
\* goalkeepers; of three forwards costing 3, 4, 5, two requested, budget 8,
\* it yields the pairs of cost 7 and 8 and not the pair of cost 9.
C9_PruningEquivalent ==
    (program = "enum" /\ NonNegativeCosts) =>
        /\ Range(groups) = {g \in AllGroups : GroupCost(g) <= max_value}
        /\ \A i, j \in DOMAIN groups : i # j => groups[i] # groups[j]
        /\ \A i \in DOMAIN groups : InPositionOrder(groups[i])
        /\ (/\ data = read_csv_set(RowsForwards)
            /\ args.fwds = 2 /\ args.mids = 0 /\ args.defs = 0 /\ args.gks = 0
            /\ max_value = 16)
              => {GroupCost(groups[i]) : i \in DOMAIN groups} = {14, 16}

\* the example has been enumerated: two pairs yielded, the third pruned
C9_Witness ==
    /\ program = "enum"
    /\ pc = "done"
    /\ data = read_csv_set(RowsForwards)
    /\ args.fwds = 2 /\ args.mids = 0 /\ args.defs = 0 /\ args.gks = 0
    /\ max_value = 16
    /\ consumed = 2
    /\ Cardinality(AllGroups) = 3

\* the entry main appends for the i-th yielded group
EntryOf(i) == <<groups[i], GroupCost(groups[i]), GroupScore(groups[i])>>

\* place of the i-th of the first n yielded groups when they are sorted by
\* total score descending, ties in enumeration order
RankAmong(n, i) ==
    1 + Cardinality({j \in 1..n :
            \/ GroupScore(groups[j]) > GroupScore(groups[i])
            \/ GroupScore(groups[j]) = GroupScore(groups[i]) /\ j < i})

\* the batch result over the first n yielded groups
BatchTop(n) ==
    [r \in 1..Min(args.top_n, n) |->
        EntryOf(CHOOSE i \in 1..n : RankAmong(n, i) = r)]

IncrementalEqualsBatch ==
    program = "enum" =>
        /\ top_groups = BatchTop(consumed)
        /\ pc = "done" => consumed = Len(groups)

NoBetterAbsent ==
    program = "enum" =>
        \A i \in 1..consumed :
            EntryOf(i) \notin Range(top_groups) =>
                \A k \in DOMAIN top_groups : top_groups[k][3] >= GroupScore(groups[i])

KeptExactlyWhen ==
    [][consumed' = consumed + 1 =>
          ((EntryOf(consumed') \in Range(top_groups'))
             <=> \/ Len(top_groups) < args.top_n
                 \/ /\ top_groups # <<>>
                    /\ GroupScore(groups[consumed'])
                          > top_groups[Len(top_groups)][3])]_vars

\* C10: the incrementally kept list equals the batch result, the first
\* top_n of the yielded groups sorted by total score descending with ties in
\* enumeration order; a candidate is kept exactly when the list has fewer
\* than top_n entries or its score strictly beats the worst kept entry; no
\* group is kept while a strictly higher-scoring yielded group is absent.
C10_TopNEqualsBatch ==
    [](IncrementalEqualsBatch /\ NoBetterAbsent) /\ KeptExactlyWhen

\* the loop has ended having dropped a group that ties with the worst kept
\* entry
C10_Witness ==
    /\ program = "enum"
    /\ pc = "done"
    /\ top_groups # <<>>
    /\ \E i \in 1..consumed :
          /\ EntryOf(i) \notin Range(top_groups)
          /\ GroupScore(groups[i]) = top_groups[Len(top_groups)][3]

---------------------------------------------------------------------------
(* Properties of repeated solves *)

\* every Optimal outcome of the problem has the same total cost
CostDecided(p) ==
    \A o1, o2 \in Solve(p) : ReturnOf(data, o1).value = ReturnOf(data, o2).value

---------------------------------------------------------------------------
(* Properties of the best record after the loop *)

\* the largest total score in the per-formation results list
MaxScore ==
    CHOOSE m \in {all_results[i][2] : i \in DOMAIN all_results} :
        \A i \in DOMAIN all_results : all_results[i][2] <= m

\* the first formation of the list whose recorded score is m
FirstWithScore(m) ==
    FORMATIONS[CHOOSE i \in DOMAIN all_results :
                  /\ all_results[i][2] = m
                  /\ \A j \in 1..(i - 1) : all_results[j][2] # m]

\* C12 as stated: after the loop the best total score equals the maximum
\* score of the per-formation results list and the best formation is a
\* member of the formation list.
C12_BestIsAResult ==
    pc = "done" =>
        /\ best_result.points = MaxScore
        /\ best_formation \in Range(FORMATIONS)

\* C12 as amended: after the loop, if some formation's total score is
\* greater than 0, the best total score is the maximum of the results list
\* and the best formation is the first formation of the list that attained
\* it; otherwise the best record is still the initial accumulator (empty
\* selection, cost 0, score 0, empty formation).
C12_BestOrInitial ==
    pc = "done" =>
        IF MaxScore > 0
        THEN /\ best_result.points = MaxScore
             /\ best_formation = FirstWithScore(MaxScore)
             /\ best_formation \in Range(FORMATIONS)
             /\ best_result.team # {}
        ELSE /\ best_result = Sentinel
             /\ best_formation = <<>>

\* the loop has ended with a best formation that is not the first of the
\* list, after a formation that was recorded with score 0
C12_Witness ==
    /\ pc = "done"
    /\ MaxScore > 0
    /\ best_formation # FORMATIONS[1]
    /\ best_formation \in Range(FORMATIONS)
    /\ \E i \in DOMAIN all_results : all_results[i][2] = 0

---------------------------------------------------------------------------
(* Properties of the catalog read_csv builds *)

\* C13: the position index agrees with the by-id records, also when records
\* repeat an id with a different position: an id is in position p's index
\* only if its by-id record (the later one) has position p; so no id is in
\* two position indexes and no group the generator yields holds an id twice.
C13_IndexAgreesWithInfo ==
    program = "enum" =>
        /\ \A pos \in PositionSet : \A id \in data.index[pos] :
              data.info[id].position = pos
        /\ \A p, q \in PositionSet :
              p # q => data.index[p] \cap data.index[q] = {}
        /\ \A i \in 1..consumed : \A k, l \in DOMAIN groups[i] :
              k # l => groups[i][k] # groups[i][l]

=============================================================================
